---- MODULE Spec2Model ----
(***************************************************************************)
(* Model of vultr_manager.py: the start / stop lifecycle of one labelled   *)
(* instance, the retrying HTTP wrapper, the two poll loops, the choice of  *)
(* the latest backup snapshot and the pruning of old backup snapshots.     *)
(*                                                                         *)
(* Strings are sequences of character codes, so that startswith, replace,  *)
(* string comparison, strftime and strptime are computed, not assumed.     *)
(***************************************************************************)
EXTENDS Integers, Sequences, FiniteSets, TLC

\* ------------------------------------------------------------------------
\* Strings

\* The recursive operators below bind their arguments through one-element
\* sets (CHOOSE r \in {e : x \in {arg}} : TRUE is e with x = arg), so that an
\* argument is computed once and not at each place it is used.

\* "Quant-Backup-"
BackupPrefix == <<81, 117, 97, 110, 116, 45, 66, 97, 99, 107, 117, 112, 45>>

\* The text of a sequence of decimal digits.
Digits(ds) == [i \in 1..Len(ds) |-> 48 + ds[i]]

\* str.startswith
StartsWith(s, pre) ==
    /\ Len(s) >= Len(pre)
    /\ \A i \in 1..Len(pre) : s[i] = pre[i]

\* s[i:] (0-based i)
Drop(s, n) == IF n >= Len(s) THEN <<>> ELSE SubSeq(s, n + 1, Len(s))

\* str.replace(old, ""): every non-overlapping occurrence, left to right.
RECURSIVE RemoveAll(_, _)
RemoveAll(str, old) ==
    CHOOSE r \in {IF s = <<>> THEN <<>>
                  ELSE IF StartsWith(s, old) THEN RemoveAll(Drop(s, Len(old)), old)
                  ELSE <<Head(s)>> \o RemoveAll(Tail(s), old) : s \in {str}} : TRUE

\* a < b for str: the first differing character decides, else the length.
RECURSIVE LexLess(_, _)
LexLess(left, right) ==
    \E a \in {left}, b \in {right} :
        IF b = <<>> THEN FALSE
        ELSE IF a = <<>> THEN TRUE
        ELSE IF Head(a) # Head(b) THEN Head(a) < Head(b)
        ELSE LexLess(Tail(a), Tail(b))

\* ------------------------------------------------------------------------
\* Dates

IsLeap(y) == (y % 4 = 0 /\ y % 100 # 0) \/ y % 400 = 0

DaysInMonth(y, m) ==
    IF m = 2 THEN (IF IsLeap(y) THEN 29 ELSE 28)
    ELSE IF m \in {4, 6, 9, 11} THEN 30 ELSE 31

RECURSIVE DaysBeforeMonth(_, _)
DaysBeforeMonth(y, m) ==
    IF m = 1 THEN 0 ELSE DaysBeforeMonth(y, m - 1) + DaysInMonth(y, m - 1)

\* date.toordinal(): days since 0001-01-01, counting that day as 1.
Ordinal(dt) ==
    LET y1 == dt.y - 1
    IN  365 * y1 + (y1 \div 4) - (y1 \div 100) + (y1 \div 400)
          + DaysBeforeMonth(dt.y, dt.m) + dt.d

\* strftime("%Y%m%d")
Strftime(dt) ==
    Digits(<<dt.y \div 1000, (dt.y \div 100) % 10, (dt.y \div 10) % 10, dt.y % 10,
             dt.m \div 10, dt.m % 10, dt.d \div 10, dt.d % 10>>)

IsDigit(c) == c \in 48..57
Val(c) == c - 48

\* The alternatives of the %m directive, in the order the pattern tries them
\* (1[0-2] | 0[1-9] | [1-9]), matched against s: each is <<value, length>>.
MonthAlts(s) ==
    (IF Len(s) >= 2 /\ s[1] = 49 /\ s[2] \in 48..50
        THEN <<(<<10 + Val(s[2]), 2>>)>> ELSE <<>>)
    \o (IF Len(s) >= 2 /\ s[1] = 48 /\ s[2] \in 49..57
        THEN <<(<<Val(s[2]), 2>>)>> ELSE <<>>)
    \o (IF Len(s) >= 1 /\ s[1] \in 49..57
        THEN <<(<<Val(s[1]), 1>>)>> ELSE <<>>)

\* The alternatives of the %d directive (3[0-1] | [1-2]\d | 0[1-9] | [1-9] | " "[1-9]).
DayAlts(s) ==
    (IF Len(s) >= 2 /\ s[1] = 51 /\ s[2] \in 48..49
        THEN <<(<<30 + Val(s[2]), 2>>)>> ELSE <<>>)
    \o (IF Len(s) >= 2 /\ s[1] \in 49..50 /\ IsDigit(s[2])
        THEN <<(<<10 * Val(s[1]) + Val(s[2]), 2>>)>> ELSE <<>>)
    \o (IF Len(s) >= 2 /\ s[1] = 48 /\ s[2] \in 49..57
        THEN <<(<<Val(s[2]), 2>>)>> ELSE <<>>)
    \o (IF Len(s) >= 1 /\ s[1] \in 49..57
        THEN <<(<<Val(s[1]), 1>>)>> ELSE <<>>)
    \o (IF Len(s) >= 2 /\ s[1] = 32 /\ s[2] \in 49..57
        THEN <<(<<Val(s[2]), 2>>)>> ELSE <<>>)

\* The first way the pattern \d\d\d\d %m %d matches a prefix of s, trying the
\* month alternatives in order and, for each, the day alternatives in order:
\* <<y, m, d, end>>, or <<>> when the pattern does not match.
RECURSIVE FirstMatch(_, _, _)
FirstMatch(s, y, months) ==
    CHOOSE r \in {
        IF ms = <<>> THEN <<>>
        ELSE LET m == Head(ms)
             IN  CHOOSE f \in {
                     IF ds # <<>> THEN <<y, m[1], ds[1][1], 4 + m[2] + ds[1][2]>>
                     ELSE FirstMatch(s, y, Tail(ms)) :
                     ds \in {DayAlts(Drop(s, 4 + m[2]))}} : TRUE :
        ms \in {months}} : TRUE

\* What strptime raises instead of returning a date.
ValueError == [raised |-> TRUE, y |-> 0, m |-> 0, d |-> 0]

\* datetime.strptime(s, "%Y%m%d"): the date, or ValueError when the pattern
\* does not match, when text remains after the match, or when the matched
\* numbers are no date.
Strptime(str) ==
    CHOOSE r \in {
        IF ~(Len(s) >= 4 /\ \A i \in 1..4 : IsDigit(s[i])) THEN ValueError
        ELSE LET y == 1000 * Val(s[1]) + 100 * Val(s[2]) + 10 * Val(s[3]) + Val(s[4])
             IN  CHOOSE dt \in {
                     IF f = <<>> THEN ValueError
                     ELSE IF f[4] # Len(s) THEN ValueError
                     ELSE IF f[1] < 1 \/ f[3] > DaysInMonth(f[1], f[2]) THEN ValueError
                     ELSE [raised |-> FALSE, y |-> f[1], m |-> f[2], d |-> f[3]] :
                     f \in {FirstMatch(s, y, MonthAlts(Drop(s, 4)))}} : TRUE :
        s \in {str}} : TRUE

\* (datetime.utcnow() - snap_date).days: utcnow is some time during `today`
\* and snap_date is a midnight, so the whole days between them are the
\* difference of the two dates (negative for a date after today).
AgeDays(today, snap_date) == Ordinal(today) - Ordinal(snap_date)

\* ------------------------------------------------------------------------
\* Snapshot selection and pruning (the computations on a listing)

LABEL == "Quant-Trading-Server"

\* The value of "no result" (None); resource ids are positive.
None == 0

\* Variant: every snapshot that has a description is taken for a backup.
IsAnySnapshot(s) == Len(s.description) >= 0

\* s.get("description", "").startswith("Quant-Backup-")
IsBackup(s) == StartsWith(s.description, BackupPrefix)

\* Variant: the status is not looked at.
IsAnyBackup(s) == StartsWith(s.description, BackupPrefix)

IsCompleteBackup(s) == IsBackup(s) /\ s.status = "complete"

\* Where list.sort(key=description, reverse=True), which is stable, puts x
\* in a list already sorted that way: after every element not less than x.
RECURSIVE InsertDescending(_, _)
InsertDescending(list, item) ==
    CHOOSE r \in {IF sorted = <<>> THEN <<x>>
                  ELSE IF LexLess(Head(sorted).description, x.description)
                       THEN <<x>> \o sorted
                       ELSE <<Head(sorted)>> \o InsertDescending(Tail(sorted), x) :
                  sorted \in {list}, x \in {item}} : TRUE

RECURSIVE SortDescending(_)
SortDescending(listing) ==
    CHOOSE r \in {IF list = <<>> THEN <<>>
                  ELSE InsertDescending(SortDescending(SubSeq(list, 1, Len(list) - 1)),
                                        list[Len(list)]) : list \in {listing}} : TRUE

\* list[n:]
SliceFrom(list, n) ==
    IF n >= 0 THEN Drop(list, n)
    ELSE Drop(list, IF Len(list) + n > 0 THEN Len(list) + n ELSE 0)

\* latest_backup_snapshot, after its listing call returned `listing`.
LatestBackupSnapshot(listing) ==
    LET backups == SelectSeq(listing, IsCompleteBackup)
    IN  IF backups = <<>> THEN None
        ELSE SortDescending(backups)[1].id

\* The backups of prune_old_snapshots: filtered and sorted newest first.
PruneBackups(listing) == SortDescending(SelectSeq(listing, IsBackup))

\* Variant: a snapshot exactly retain_days old is deleted too.
AgeVerdictInclusive(snap, today, retain_days) ==
    LET snap_date == Strptime(RemoveAll(snap.description, BackupPrefix))
    IN  IF snap_date.raised THEN "pass"
        ELSE IF AgeDays(today, snap_date) >= retain_days THEN "delete" ELSE "keep"

\* Variant: the ValueError of strptime is not caught.
AgeVerdictUncaught(snap, today, retain_days) ==
    LET snap_date == Strptime(RemoveAll(snap.description, BackupPrefix))
    IN  IF snap_date.raised THEN "raise"
        ELSE IF AgeDays(today, snap_date) > retain_days THEN "delete" ELSE "keep"

\* The body of the loop of rule 1 on one snapshot: "delete" when its date
\* parses and is more than retain_days old, "keep" when it is not, "pass" when
\* strptime raised ValueError, which the loop catches ("raise": it would not).
AgeVerdict(snap, today, retain_days) ==
    CHOOSE verdict \in {"pass", "delete", "keep"} :
        \E date_str \in {RemoveAll(snap.description, BackupPrefix)} :
        \E snap_date \in {Strptime(date_str)} :
            verdict = IF snap_date.raised THEN "pass"
                      ELSE IF AgeDays(today, snap_date) > retain_days THEN "delete" ELSE "keep"

\* Rule 1: the loop over backups[1:].
RECURSIVE AgeRule(_, _, _)
AgeRule(others, today, retain_days) ==
    CHOOSE r \in {IF rest = <<>> THEN {}
                  ELSE (IF AgeVerdict(Head(rest), today, retain_days) = "delete"
                        THEN {Head(rest).id} ELSE {})
                       \cup AgeRule(Tail(rest), today, retain_days) : rest \in {others}} : TRUE

\* An exception leaves the loop of rule 1.
AgeRuleRaises(rest, today, retain_days) ==
    \E i \in 1..Len(rest) : AgeVerdict(rest[i], today, retain_days) = "raise"

\* Rule 2: the loop over backups[max_count:].
CountRule(backups, max_count) ==
    LET surplus == SliceFrom(backups, max_count)
    IN  {surplus[i].id : i \in 1..Len(surplus)}

\* Variant: rule 1 runs over all the backups, the newest included.
ToDeleteNoExemption(backups, today, retain_days, max_count) ==
    AgeRule(backups, today, retain_days) \cup CountRule(backups, max_count)

\* to_delete of prune_old_snapshots.
ToDelete(backups, today, retain_days, max_count) ==
    AgeRule(SliceFrom(backups, 1), today, retain_days)
        \cup CountRule(backups, max_count)

\* ------------------------------------------------------------------------
\* Bounds of the model

NumProcs == 2          \* manager processes that may exist
MaxFaults == 3         \* failing responses the provider or network may inject
MaxInstances == 2      \* instances in the account at the start
MaxSnapshots == 2      \* snapshots in the account at the start of a run
MaxListing == 4        \* snapshots in a listing, of any kind, given to the pruning alone
MaxBackups == 3        \* backups in the account when a stop run is followed to its end
MaxLatest == 3         \* snapshots in a listing given to latest_backup_snapshot alone
MaxRetries == 4        \* largest retry count tried for a call on its own
InstanceTimeout == 40  \* timeout given to _wait_for_instance (seconds)
SnapshotTimeout == 60  \* timeout given to wait_for_snapshot (seconds)

\* ------------------------------------------------------------------------
\* Program constants

DefaultRetries == 3
BackoffBase == 10
InstancePollInterval == 20
SnapshotPollInterval == 30
DefaultRetainDays == 3
DefaultMaxCount == 3
BaseSnapshotId == 1000      \* SNAPSHOT_ID: the base image, never listed as a backup

Procs == 1..NumProcs

\* ------------------------------------------------------------------------
\* State

VARIABLES
    \* the provider's account and the world
    instances,      \* listing of instances: [id, label, status, power_status, snapshot_id]
    snapshots,      \* listing of snapshots: [id, description, status]
    nextId,         \* the id the provider gives the next resource
    today,          \* the current UTC date
    faults,         \* failing responses still to come
    \* configuration read from the environment
    retain_days, max_count,
    \* each manager process
    pc,             \* where it is: a return point of _request, "request", a loop head, "exit"
    action,         \* the command line's action
    req,            \* the call _request is making
    data,           \* the JSON body _request returned last, where the caller keeps it
    now,            \* time.time() of the process
    deadline,       \* the poll loop's deadline
    instance_id, snap_id, latest, backups, to_delete, idx,
    exit_code,
    \* what has been observed of each process
    calls,          \* HTTP attempts made, by <<method, kind>>
    tries,          \* HTTP attempts made by the call in progress (or the last one)
    last,           \* the status the last attempt received (NetErr: none)
    deleted,        \* ids of snapshots a DELETE attempt was sent for
    created,        \* id of the snapshot the provider made for this run's POST
    seen_complete,  \* id of the snapshot a poll observed "complete"
    logged          \* log lines written

provider == <<instances, snapshots, nextId, today, faults>>
config == <<retain_days, max_count>>
locals == <<deadline, instance_id, snap_id, latest, backups, to_delete, idx>>
observed == <<calls, tries, last, deleted, created, seen_complete, logged>>
vars == <<provider, config, pc, action, req, data, now, locals, exit_code, observed>>

Methods == {"GET", "POST", "PATCH", "DELETE"}
Kinds == {"instances", "instance", "snapshots", "snapshot"}

\* str.upper() on the method names that occur.
Upper(method) ==
    CASE method = "get" -> "GET"
      [] method = "post" -> "POST"
      [] method = "patch" -> "PATCH"
      [] method = "delete" -> "DELETE"
      [] OTHER -> method

\* A body with nothing in it ({}): absent keys are empty.
EmptyBody == [instances |-> <<>>, snapshots |-> <<>>, instance |-> <<>>, snapshot |-> <<>>]

NoRequest == [method |-> "GET", kind |-> "instances", id |-> None, retries |-> 0,
              attempt |-> 0, payload |-> <<>>, ret |-> "exit"]

\* No HTTP response at all: requests.RequestException.
NetErr == 0
FaultCodes == {NetErr, 399, 400, 499, 500}

NoPayload == [snapshot_id |-> None, label |-> "", instance_id |-> None, description |-> <<>>]

\* ------------------------------------------------------------------------
\* The provider: what a request finds and does there

HasId(list, id) == \E i \in 1..Len(list) : list[i].id = id

ById(list, id) == SelectSeq(list, LAMBDA x : x.id = id)

Without(list, id) == SelectSeq(list, LAMBDA x : x.id # id)

\* The resource a request names exists, so that the provider can serve it.
TargetExists(r) ==
    CASE r.kind = "instance" -> HasId(instances, r.id)
      [] r.kind = "snapshot" -> HasId(snapshots, r.id)
      [] r.kind = "snapshots" /\ Upper(r.method) = "POST" ->
            HasId(instances, r.payload.instance_id)
      [] r.kind = "instances" /\ Upper(r.method) = "POST" ->
            r.payload.snapshot_id = BaseSnapshotId \/ HasId(snapshots, r.payload.snapshot_id)
      [] OTHER -> TRUE

NewInstance(r) ==
    [id |-> nextId, label |-> r.payload.label, status |-> "pending",
     power_status |-> "stopped", snapshot_id |-> r.payload.snapshot_id]

NewSnapshot(r) ==
    [id |-> nextId, description |-> r.payload.description, status |-> "pending"]

Creates(r) == Upper(r.method) = "POST" /\ r.kind \in {"instances", "snapshots"}

\* Variant: the provider keeps one instance of a label, the one made last.
InstancesAfterUniqueLabel(r) ==
    CASE Upper(r.method) = "POST" /\ r.kind = "instances" ->
            Append(SelectSeq(instances, LAMBDA inst : inst.label # r.payload.label),
                   NewInstance(r))
      [] Upper(r.method) = "DELETE" /\ r.kind = "instance" -> Without(instances, r.id)
      [] OTHER -> instances

InstancesAfter(r) ==
    CASE Upper(r.method) = "POST" /\ r.kind = "instances" -> Append(instances, NewInstance(r))
      [] Upper(r.method) = "DELETE" /\ r.kind = "instance" -> Without(instances, r.id)
      [] OTHER -> instances

SnapshotsAfter(r) ==
    CASE Upper(r.method) = "POST" /\ r.kind = "snapshots" -> Append(snapshots, NewSnapshot(r))
      [] Upper(r.method) = "DELETE" /\ r.kind = "snapshot" -> Without(snapshots, r.id)
      [] OTHER -> snapshots

\* The JSON body of a successful response (a DELETE answers with no content).
Body(r) ==
    CASE Upper(r.method) = "GET" /\ r.kind = "instances" ->
            [EmptyBody EXCEPT !.instances = instances]
      [] Upper(r.method) = "GET" /\ r.kind = "snapshots" ->
            [EmptyBody EXCEPT !.snapshots = snapshots]
      [] Upper(r.method) = "GET" /\ r.kind = "instance" ->
            [EmptyBody EXCEPT !.instance = ById(instances, r.id)]
      [] Upper(r.method) = "GET" /\ r.kind = "snapshot" ->
            [EmptyBody EXCEPT !.snapshot = ById(snapshots, r.id)]
      [] Upper(r.method) = "POST" /\ r.kind = "instances" ->
            [EmptyBody EXCEPT !.instance = <<NewInstance(r)>>]
      [] Upper(r.method) = "POST" /\ r.kind = "snapshots" ->
            [EmptyBody EXCEPT !.snapshot = <<NewSnapshot(r)>>]
      [] OTHER -> EmptyBody

\* The status with which the provider answers a request it serves: 200 for a
\* read, 201 for a snapshot made, 202 for an instance accepted, 204 for a
\* deletion or an update.
OkCode(r) ==
    CASE Upper(r.method) = "GET" -> 200
      [] Upper(r.method) = "POST" /\ r.kind = "snapshots" -> 201
      [] Upper(r.method) = "POST" -> 202
      [] OTHER -> 204

\* The statuses an attempt of r can receive: the provider serves it, or does
\* not find what it names (404), or a fault is injected.
Statuses(r) == (IF TargetExists(r) THEN {OkCode(r)} ELSE {404}) \cup FaultCodes

\* A failing status that the state of the account does not explain.
Injected(r, st) == st \in FaultCodes

\* ------------------------------------------------------------------------
\* _request

\* Variant: the method is compared as written, without upper().
RetriesCaseSensitive(method, retries) ==
    IF method \in {"POST", "PATCH"} THEN 1 ELSE retries

\* Variant: every method is given the retries asked for.
RetriesForAll(method, retries) == retries

\* POST and PATCH are given one attempt.
Retries(method, retries) ==
    IF Upper(method) \in {"POST", "PATCH"} THEN 1 ELSE retries

IsSuccess(st) == st \in {200, 201, 202, 204}

\* Variant: the clock stands still through a sleep.
SleepFrozen(t, seconds) == t

\* time.sleep(seconds) when time.time() is t: the clock the process reads next.
Sleep(t, seconds) == t + seconds

\* Variant: the wait follows every failed attempt, the last one too.
BackoffAfterEvery(attempt, retries) == BackoffBase * attempt

\* The seconds slept after a failed attempt: none after the last one.
Backoff(attempt, retries) == IF attempt < retries THEN BackoffBase * attempt ELSE 0

\* Variant: 400 itself is not taken for a client error.
IsClientErrorAbove400(st) == st # NetErr /\ 400 < st /\ st < 500

IsClientError(st) == st # NetErr /\ 400 <= st /\ st < 500

\* The classes `except Exception` catches; SystemExit derives from BaseException.
ExceptionClasses == {"Exception", "ValueError", "KeyError", "RequestException"}

\* The calls made inside the try block of action_stop.
InTry(ret) == ret \in {"prune_list", "prune_loop"}

\* action_stop's handler catches exc raised by a call that returns to ret.
Caught(exc, ret) == InTry(ret) /\ exc \in ExceptionClasses

Exit(p, code) ==
    /\ pc' = [pc EXCEPT ![p] = "exit"]
    /\ exit_code' = [exit_code EXCEPT ![p] = code]

Log(p, lines) == logged' = [logged EXCEPT ![p] = @ \cup lines]

\* raise SystemExit(1) inside _request: caught by action_stop's handler, which
\* then finishes the stop sequence, or else the process exits with status 1.
RaiseSystemExit(p, lines) ==
    IF Caught("SystemExit", req[p].ret)
    THEN /\ Exit(p, 0)
         /\ Log(p, lines \cup {"Snapshot pruning failed (non-fatal)", "Stop sequence complete."})
    ELSE /\ Exit(p, 1)
         /\ Log(p, lines)

\* The callers that send a DELETE drop what _request returns: their `data`,
\* if they have one, stays what it was.
Discarded(r) == Upper(r.method) = "DELETE"

\* Entering _request(method, path): nothing has been attempted yet.
CallRecord(method, kind, id, payload, retries, ret) ==
    [method |-> method, kind |-> kind, id |-> id, retries |-> retries, attempt |-> 1,
     payload |-> payload, ret |-> ret]

Call(p, method, kind, id, payload, ret) ==
    /\ req' = [req EXCEPT ![p] = CallRecord(method, kind, id, payload, DefaultRetries, ret)]
    /\ pc' = [pc EXCEPT ![p] = "request"]
    /\ tries' = [tries EXCEPT ![p] = 0]

\* One iteration of the loop of _request: one HTTP attempt and what follows
\* it; or, when the attempts are used up, the fatal end.
Request(p) ==
    /\ pc[p] = "request"
    /\ LET r == req[p]
           retries == Retries(r.method, r.retries)
       IN  IF r.attempt > retries
           THEN /\ RaiseSystemExit(p, {"All attempts failed"})
                /\ UNCHANGED <<provider, req, data, now, calls, tries, last, deleted, created,
                               seen_complete>>
           ELSE \E st \in Statuses(r), applied \in BOOLEAN :
                /\ Injected(r, st) => faults > 0
                \* a response that is lost may hide a change that was made
                /\ applied => /\ st \in {NetErr, 500}
                              /\ Upper(r.method) \in {"POST", "DELETE"}
                              /\ TargetExists(r)
                /\ faults' = IF Injected(r, st) THEN faults - 1 ELSE faults
                /\ LET done == st = OkCode(r) \/ applied
                   IN  /\ instances' = IF done THEN InstancesAfter(r) ELSE instances
                       /\ snapshots' = IF done THEN SnapshotsAfter(r) ELSE snapshots
                       /\ nextId' = IF done /\ Creates(r) THEN nextId + 1 ELSE nextId
                       /\ created' = IF done /\ Creates(r) /\ r.kind = "snapshots"
                                     THEN [created EXCEPT ![p] = nextId] ELSE created
                /\ calls' = [calls EXCEPT ![p][<<Upper(r.method), r.kind>>] = @ + 1]
                /\ tries' = [tries EXCEPT ![p] = @ + 1]
                /\ last' = [last EXCEPT ![p] = st]
                /\ deleted' = IF Upper(r.method) = "DELETE" /\ r.kind = "snapshot"
                              THEN [deleted EXCEPT ![p] = @ \cup {r.id}] ELSE deleted
                /\ IF IsSuccess(st)
                   THEN /\ data' = IF Discarded(r) THEN data ELSE [data EXCEPT ![p] = Body(r)]
                        /\ pc' = [pc EXCEPT ![p] = r.ret]
                        /\ UNCHANGED <<req, now, exit_code, logged>>
                   ELSE IF IsClientError(st)
                   THEN /\ RaiseSystemExit(p, {"Client error"})
                        /\ UNCHANGED <<req, data, now>>
                   ELSE /\ req' = [req EXCEPT ![p].attempt = @ + 1]
                        /\ now' = [now EXCEPT ![p] = Sleep(@, Backoff(r.attempt, retries))]
                        /\ UNCHANGED <<data, pc, exit_code, logged>>
                /\ seen_complete' =
                     IF IsSuccess(st) /\ Upper(r.method) = "GET" /\ r.kind = "snapshot"
                        /\ Body(r).snapshot[1].status = "complete"
                     THEN [seen_complete EXCEPT ![p] = r.id] ELSE seen_complete
                /\ UNCHANGED today
    /\ UNCHANGED <<config, action, locals>>

\* ------------------------------------------------------------------------
\* The callers of _request

\* Variant: only an instance whose status is "active" counts as running.
FindInstanceActiveOnly(listing) ==
    LET live == SelectSeq(listing, LAMBDA inst : inst.label = LABEL /\ inst.status = "active")
    IN  IF live = <<>> THEN <<>> ELSE <<live[1]>>

\* Variant: the status is not looked at.
FindInstanceAnyStatus(listing) ==
    LET live == SelectSeq(listing, LAMBDA inst : inst.label = LABEL)
    IN  IF live = <<>> THEN <<>> ELSE <<live[1]>>

\* find_instance on the listing returned: the first live labelled instance.
FindInstance(listing) ==
    LET live == SelectSeq(listing, LAMBDA inst : inst.label = LABEL /\ inst.status # "dead")
    IN  IF live = <<>> THEN <<>> ELSE <<live[1]>>

\* main: both actions begin with find_instance.
Main(p) ==
    /\ pc[p] = "main"
    /\ Call(p, "GET", "instances", None, NoPayload, "find_instance")
    /\ UNCHANGED <<provider, config, action, data, now, locals, exit_code,
                   calls, last, deleted, created, seen_complete, logged>>

\* action_start after find_instance returned; create_instance up to its listing call.
StartFound(p) ==
    /\ pc[p] = "find_instance"
    /\ action[p] = "start"
    /\ IF FindInstance(data[p].instances) # <<>>
       THEN /\ Exit(p, 0)
            /\ Log(p, {"Instance already running. Nothing to do."})
            /\ UNCHANGED <<req, tries>>
       ELSE /\ Call(p, "GET", "snapshots", None, NoPayload, "latest_backup_snapshot")
            /\ UNCHANGED <<exit_code, logged>>
    /\ UNCHANGED <<provider, config, action, data, now, locals,
                   calls, last, deleted, created, seen_complete>>

\* Variant: the base snapshot is always the source.
SourceAlwaysBase(found) == BaseSnapshotId

\* latest_backup_snapshot() or SNAPSHOT_ID
SourceSnapshot(found) == IF found # None THEN found ELSE BaseSnapshotId

\* latest_backup_snapshot after its listing, and create_instance up to its POST.
LatestListed(p) ==
    /\ pc[p] = "latest_backup_snapshot"
    /\ LET found == LatestBackupSnapshot(data[p].snapshots)
           source == SourceSnapshot(found)
       IN  /\ latest' = [latest EXCEPT ![p] = found]
           /\ Call(p, "POST", "instances", None,
                   [NoPayload EXCEPT !.snapshot_id = source, !.label = LABEL],
                   "create_instance")
    /\ UNCHANGED <<provider, config, action, data, now, deadline, instance_id, snap_id,
                   backups, to_delete, idx, exit_code,
                   calls, last, deleted, created, seen_complete, logged>>

\* create_instance after its POST; _wait_for_instance sets its deadline.
InstanceCreated(p) ==
    /\ pc[p] = "create_instance"
    /\ instance_id' = [instance_id EXCEPT ![p] = data[p].instance[1].id]
    /\ deadline' = [deadline EXCEPT ![p] = now[p] + InstanceTimeout]
    /\ pc' = [pc EXCEPT ![p] = "wait_for_instance"]
    /\ UNCHANGED <<provider, config, action, req, data, now, snap_id, latest, backups, to_delete,
                   idx, exit_code, observed>>

\* The loop test of _wait_for_instance, and the poll it begins.
WaitInstance(p) ==
    /\ pc[p] = "wait_for_instance"
    /\ IF now[p] < deadline[p]
       THEN /\ Call(p, "GET", "instance", instance_id[p], NoPayload, "instance_polled")
            /\ UNCHANGED <<exit_code, logged>>
       ELSE /\ Exit(p, 1)
            /\ Log(p, {"Instance did not become active"})
            /\ UNCHANGED <<req, tries>>
    /\ UNCHANGED <<provider, config, action, data, now, locals,
                   calls, last, deleted, created, seen_complete>>

\* Variant: the power status is not looked at.
InstancePolledActiveOnly(p) ==
    /\ pc[p] = "instance_polled"
    /\ LET inst == data[p].instance[1]
       IN  IF inst.status = "active"
           THEN /\ Exit(p, 0)
                /\ Log(p, {"Server started successfully."})
                /\ UNCHANGED now
           ELSE /\ now' = [now EXCEPT ![p] = @ + InstancePollInterval]
                /\ pc' = [pc EXCEPT ![p] = "wait_for_instance"]
                /\ UNCHANGED <<exit_code, logged>>
    /\ UNCHANGED <<provider, config, action, req, data, locals,
                   calls, tries, last, deleted, created, seen_complete>>

\* _wait_for_instance after a poll; on success action_start reports and returns.
InstancePolled(p) ==
    /\ pc[p] = "instance_polled"
    /\ LET inst == data[p].instance[1]
       IN  IF inst.status = "active" /\ inst.power_status = "running"
           THEN /\ Exit(p, 0)
                /\ Log(p, {"Server started successfully."})
                /\ UNCHANGED now
           ELSE /\ now' = [now EXCEPT ![p] = Sleep(@, InstancePollInterval)]
                /\ pc' = [pc EXCEPT ![p] = "wait_for_instance"]
                /\ UNCHANGED <<exit_code, logged>>
    /\ UNCHANGED <<provider, config, action, req, data, locals,
                   calls, tries, last, deleted, created, seen_complete>>

\* action_stop after find_instance returned; create_snapshot up to its POST.
StopFound(p) ==
    /\ pc[p] = "find_instance"
    /\ action[p] = "stop"
    /\ LET inst == FindInstance(data[p].instances)
       IN  IF inst = <<>>
           THEN /\ Exit(p, 1)
                /\ Log(p, {"No running instance found."})
                /\ UNCHANGED <<req, tries, instance_id>>
           ELSE /\ instance_id' = [instance_id EXCEPT ![p] = inst[1].id]
                /\ Call(p, "POST", "snapshots", None,
                        [NoPayload EXCEPT !.instance_id = inst[1].id,
                                          !.description = BackupPrefix \o Strftime(today)],
                        "create_snapshot")
                /\ UNCHANGED <<exit_code, logged>>
    /\ UNCHANGED <<provider, config, action, data, now, deadline, snap_id, latest, backups,
                   to_delete, idx, calls, last, deleted, created, seen_complete>>

\* create_snapshot after its POST; wait_for_snapshot sets its deadline.
SnapshotCreated(p) ==
    /\ pc[p] = "create_snapshot"
    /\ snap_id' = [snap_id EXCEPT ![p] = data[p].snapshot[1].id]
    /\ deadline' = [deadline EXCEPT ![p] = now[p] + SnapshotTimeout]
    /\ pc' = [pc EXCEPT ![p] = "wait_for_snapshot"]
    /\ UNCHANGED <<provider, config, action, req, data, now, instance_id, latest, backups,
                   to_delete, idx, exit_code, observed>>

\* Variant: the loop goes on while the deadline is not exceeded.
WaitSnapshotInclusive(p) ==
    /\ pc[p] = "wait_for_snapshot"
    /\ IF now[p] <= deadline[p]
       THEN /\ Call(p, "GET", "snapshot", snap_id[p], NoPayload, "snapshot_polled")
            /\ UNCHANGED <<exit_code, logged>>
       ELSE /\ Exit(p, 1)
            /\ Log(p, {"Snapshot did not complete"})
            /\ UNCHANGED <<req, tries>>
    /\ UNCHANGED <<provider, config, action, data, now, locals,
                   calls, last, deleted, created, seen_complete>>

\* The loop test of wait_for_snapshot, and the poll it begins.
WaitSnapshot(p) ==
    /\ pc[p] = "wait_for_snapshot"
    /\ IF now[p] < deadline[p]
       THEN /\ Call(p, "GET", "snapshot", snap_id[p], NoPayload, "snapshot_polled")
            /\ UNCHANGED <<exit_code, logged>>
       ELSE /\ Exit(p, 1)
            /\ Log(p, {"Snapshot did not complete"})
            /\ UNCHANGED <<req, tries>>
    /\ UNCHANGED <<provider, config, action, data, now, locals,
                   calls, last, deleted, created, seen_complete>>

\* Variant: every status but "error" ends the wait.
SnapshotPolledUnlessError(p) ==
    /\ pc[p] = "snapshot_polled"
    /\ LET snap == data[p].snapshot[1]
       IN  IF snap.status = "error"
           THEN /\ Exit(p, 1)
                /\ Log(p, {"Snapshot entered error state."})
                /\ UNCHANGED <<now, req, tries>>
           ELSE /\ Call(p, "DELETE", "instance", instance_id[p], NoPayload, "destroy_instance")
                /\ UNCHANGED <<now, exit_code, logged>>
    /\ UNCHANGED <<provider, config, action, data, locals, calls, last, deleted, created,
                   seen_complete>>

\* wait_for_snapshot after a poll; once complete, destroy_instance up to its DELETE.
SnapshotPolled(p) ==
    /\ pc[p] = "snapshot_polled"
    /\ LET snap == data[p].snapshot[1]
       IN  IF snap.status = "complete"
           THEN /\ Call(p, "DELETE", "instance", instance_id[p], NoPayload, "destroy_instance")
                /\ UNCHANGED <<now, exit_code, logged>>
           ELSE IF snap.status = "error"
           THEN /\ Exit(p, 1)
                /\ Log(p, {"Snapshot entered error state."})
                /\ UNCHANGED <<now, req, tries>>
           ELSE /\ now' = [now EXCEPT ![p] = Sleep(@, SnapshotPollInterval)]
                /\ pc' = [pc EXCEPT ![p] = "wait_for_snapshot"]
                /\ UNCHANGED <<req, tries, exit_code, logged>>
    /\ UNCHANGED <<provider, config, action, data, locals, calls, last, deleted, created,
                   seen_complete>>

\* destroy_instance after its DELETE: action_stop enters its try block and
\* calls prune_old_snapshots.
Destroyed(p) ==
    /\ pc[p] = "destroy_instance"
    /\ pc' = [pc EXCEPT ![p] = "prune_old_snapshots"]
    /\ Log(p, {"Instance destroyed."})
    /\ UNCHANGED <<provider, config, action, req, data, now, locals, exit_code,
                   calls, tries, last, deleted, created, seen_complete>>

\* prune_old_snapshots up to its listing call.
PruneStart(p) ==
    /\ pc[p] = "prune_old_snapshots"
    /\ Call(p, "GET", "snapshots", None, NoPayload, "prune_list")
    /\ UNCHANGED <<provider, config, action, data, now, locals, exit_code,
                   calls, last, deleted, created, seen_complete, logged>>

\* prune_old_snapshots returned: action_stop logs and returns.
StopComplete(p, lines) ==
    /\ Exit(p, 0)
    /\ Log(p, lines \cup {"Stop sequence complete."})

\* prune_old_snapshots after its listing: the backups and the deletion set.
PruneListed(p) ==
    /\ pc[p] = "prune_list"
    /\ LET sorted == PruneBackups(data[p].snapshots)
           raises == AgeRuleRaises(SliceFrom(sorted, 1), today, retain_days)
           doomed == IF sorted = <<>> \/ raises THEN {}
                     ELSE ToDelete(sorted, today, retain_days, max_count)
       IN  /\ backups' = [backups EXCEPT ![p] = sorted]
           /\ to_delete' = [to_delete EXCEPT ![p] = doomed]
           /\ IF sorted = <<>>
              THEN /\ StopComplete(p, {"No backup snapshots found."})
                   /\ UNCHANGED idx
              ELSE IF raises
              THEN /\ IF Caught("ValueError", "prune_list")
                      THEN StopComplete(p, {"Snapshot pruning failed (non-fatal)"})
                      ELSE Exit(p, 1) /\ UNCHANGED logged
                   /\ UNCHANGED idx
              ELSE IF doomed = {}
              THEN /\ StopComplete(p, {"No old snapshots to prune."})
                   /\ UNCHANGED idx
              ELSE /\ idx' = [idx EXCEPT ![p] = 1]
                   /\ pc' = [pc EXCEPT ![p] = "prune_loop"]
                   /\ UNCHANGED <<exit_code, logged>>
    /\ UNCHANGED <<provider, config, action, req, data, now, deadline, instance_id, snap_id,
                   latest, calls, tries, last, deleted, created, seen_complete>>

\* The deletion loop from its i-th iteration on: the index of the first
\* snapshot it sends a DELETE for, or Len(list) + 1 when it ends without one.
RECURSIVE NextDoomed(_, _, _)
NextDoomed(list, i, doomed) ==
    IF i > Len(list) \/ list[i].id \in doomed THEN i
    ELSE NextDoomed(list, i + 1, doomed)

\* The deletion loop of prune_old_snapshots up to its next DELETE, or to its end.
PruneLoop(p) ==
    /\ pc[p] = "prune_loop"
    /\ LET j == NextDoomed(backups[p], idx[p], to_delete[p])
       IN  IF j > Len(backups[p])
           THEN /\ StopComplete(p, {"Pruned snapshot(s)."})
                /\ UNCHANGED <<req, tries, idx>>
           ELSE /\ idx' = [idx EXCEPT ![p] = j + 1]
                /\ Call(p, "DELETE", "snapshot", backups[p][j].id, NoPayload, "prune_loop")
                /\ UNCHANGED <<exit_code, logged>>
    /\ UNCHANGED <<provider, config, action, data, now, deadline, instance_id, snap_id,
                   latest, backups, to_delete, calls, last, deleted, created, seen_complete>>

\* ------------------------------------------------------------------------
\* The provider's own progress

\* Some process is still running: the account is followed until the last one ends.
Watched == \E p \in Procs : pc[p] \notin {"off", "exit", "returned"}

\* A pending snapshot completes or fails.
SnapshotProgress ==
    /\ Watched
    /\ \E i \in 1..Len(snapshots), st \in {"complete", "error"} :
         /\ snapshots[i].status = "pending"
         /\ snapshots' = [snapshots EXCEPT ![i].status = st]
    /\ UNCHANGED <<instances, nextId, today, faults, config, pc, action, req, data, now,
                   locals, exit_code, observed>>

\* A pending instance becomes active; an active instance powers on.
InstanceProgress ==
    /\ Watched
    /\ \E i \in 1..Len(instances) :
         \/ /\ instances[i].status = "pending"
            /\ instances' = [instances EXCEPT ![i].status = "active"]
         \/ /\ instances[i].status = "active"
            /\ instances[i].power_status = "stopped"
            /\ instances' = [instances EXCEPT ![i].power_status = "running"]
    /\ UNCHANGED <<snapshots, nextId, today, faults, config, pc, action, req, data, now,
                   locals, exit_code, observed>>

\* ------------------------------------------------------------------------
\* Initial states

SeqsUpTo(S, n) == UNION {[1..k -> S] : k \in 0..n}

Today0 == [raised |-> FALSE, y |-> 2024, m |-> 3, d |-> 2]

\* Descriptions: backups of today and of 2, 3, 4 and 40 days ago, a backup
\* whose suffix is no date ("Quant-Backup-manual", which sorts above every
\* date), one whose suffix is no day of the calendar ("Quant-Backup-20240230",
\* which sorts among the dates), and "manual".
DescToday == BackupPrefix \o Digits(<<2, 0, 2, 4, 0, 3, 0, 2>>)
DescAge2 == BackupPrefix \o Digits(<<2, 0, 2, 4, 0, 2, 2, 9>>)
DescAge3 == BackupPrefix \o Digits(<<2, 0, 2, 4, 0, 2, 2, 8>>)
DescAge4 == BackupPrefix \o Digits(<<2, 0, 2, 4, 0, 2, 2, 7>>)
DescAge40 == BackupPrefix \o Digits(<<2, 0, 2, 4, 0, 1, 2, 2>>)
DescManual == <<109, 97, 110, 117, 97, 108>>
DescNoDate == BackupPrefix \o DescManual
DescBadDate == BackupPrefix \o Digits(<<2, 0, 2, 4, 0, 2, 3, 0>>)

InstanceTemplates ==
    {[label |-> LABEL, status |-> "active", power_status |-> "running"],
     [label |-> LABEL, status |-> "suspended", power_status |-> "stopped"],
     [label |-> LABEL, status |-> "dead", power_status |-> "stopped"],
     [label |-> "other", status |-> "active", power_status |-> "running"]}

\* Accounts: the i-th instance has id i.
Accounts ==
    {[i \in 1..Len(ts) |-> [id |-> i, label |-> ts[i].label, status |-> ts[i].status,
                            power_status |-> ts[i].power_status,
                            snapshot_id |-> BaseSnapshotId]] :
        ts \in SeqsUpTo(InstanceTemplates, MaxInstances)}

\* Listings of snapshots: the i-th snapshot has id 10 + i.
Listings(templates, n) ==
    {[i \in 1..Len(ts) |-> [id |-> 10 + i, description |-> ts[i].description,
                            status |-> ts[i].status]] :
        ts \in SeqsUpTo(templates, n)}

RunTemplates ==
    {[description |-> DescToday, status |-> "complete"],
     [description |-> DescAge4, status |-> "complete"],
     [description |-> DescAge40, status |-> "pending"]}

ZeroCalls == [k \in Methods \X Kinds |-> 0]

\* The processes in `running` are at `at`, about to act; the others never start.
InitProcs(running, at, actions) ==
    /\ pc = [p \in Procs |-> IF p \in running THEN at ELSE "off"]
    /\ action \in [Procs -> actions]
    /\ \A p \in Procs \ running : \A a \in actions : action[p] = a => a = "start" \/ actions = {a}
    /\ data = [p \in Procs |-> EmptyBody]
    /\ now = [p \in Procs |-> 0]
    /\ deadline = [p \in Procs |-> 0]
    /\ instance_id = [p \in Procs |-> None]
    /\ snap_id = [p \in Procs |-> None]
    /\ latest = [p \in Procs |-> None]
    /\ backups = [p \in Procs |-> <<>>]
    /\ to_delete = [p \in Procs |-> {}]
    /\ idx = [p \in Procs |-> 0]
    /\ exit_code = [p \in Procs |-> 0]
    /\ calls = [p \in Procs |-> ZeroCalls]
    /\ tries = [p \in Procs |-> 0]
    /\ last = [p \in Procs |-> NetErr]
    /\ deleted = [p \in Procs |-> {}]
    /\ created = [p \in Procs |-> None]
    /\ seen_complete = [p \in Procs |-> None]
    /\ logged = [p \in Procs |-> {}]

\* One run of start or stop, against any small account.
Init ==
    /\ instances \in Accounts
    /\ snapshots \in Listings(RunTemplates, MaxSnapshots)
    /\ nextId = 20
    /\ today = Today0
    /\ faults = MaxFaults
    /\ retain_days = DefaultRetainDays
    /\ max_count = DefaultMaxCount
    /\ InitProcs({1}, "main", {"start", "stop"})
    /\ req = [p \in Procs |-> NoRequest]

Next ==
    \/ \E p \in Procs :
         \/ Main(p) \/ Request(p)
         \/ StartFound(p) \/ LatestListed(p) \/ InstanceCreated(p)
         \/ WaitInstance(p) \/ InstancePolled(p)
         \/ StopFound(p) \/ SnapshotCreated(p) \/ WaitSnapshot(p) \/ SnapshotPolled(p)
         \/ Destroyed(p) \/ PruneStart(p) \/ PruneListed(p) \/ PruneLoop(p)
    \/ SnapshotProgress
    \/ InstanceProgress

Spec == Init /\ [][Next]_vars

\* The steps of one process.
ProcNext(p) ==
    \/ Main(p) \/ Request(p)
    \/ StartFound(p) \/ LatestListed(p) \/ InstanceCreated(p)
    \/ WaitInstance(p) \/ InstancePolled(p)
    \/ StopFound(p) \/ SnapshotCreated(p) \/ WaitSnapshot(p) \/ SnapshotPolled(p)
    \/ Destroyed(p) \/ PruneStart(p) \/ PruneListed(p) \/ PruneLoop(p)

\* A process that can take a step takes one: every HTTP attempt returns or
\* fails (timeout=30) and every sleep ends. Nothing is asked of the provider.
Fairness == \A p \in Procs : WF_vars(ProcNext(p))

\* One run of start or stop against an account with the managed instance or
\* without it, and with snapshots of any kind.
InitLive ==
    /\ instances \in {acc \in Accounts : Len(acc) <= 1 /\ \A i \in 1..Len(acc) :
                          acc[i].label = LABEL /\ acc[i].status = "active"}
    /\ snapshots \in Listings(RunTemplates, 1)
    /\ nextId = 20
    /\ today = Today0
    /\ faults = MaxFaults
    /\ retain_days = DefaultRetainDays
    /\ max_count = DefaultMaxCount
    /\ InitProcs({1}, "main", {"start", "stop"})
    /\ req = [p \in Procs |-> NoRequest]

FairSpec == InitLive /\ [][Next]_vars /\ Fairness

\* ------------------------------------------------------------------------
\* Two start runs at once against an account without the managed instance

\* The accounts in which find_instance finds nothing.
IdleAccounts == {acc \in Accounts : FindInstance(acc) = <<>>}

InitRace ==
    /\ instances \in IdleAccounts
    /\ snapshots \in Listings(RunTemplates, 1)
    /\ nextId = 20
    /\ today = Today0
    /\ faults = 1
    /\ retain_days = DefaultRetainDays
    /\ max_count = DefaultMaxCount
    /\ InitProcs(Procs, "main", {"start"})
    /\ req = [p \in Procs |-> NoRequest]

\* The steps of a start run, of either process, and the provider's progress.
NextRace ==
    \/ \E p \in Procs :
         \/ Main(p) \/ Request(p)
         \/ StartFound(p) \/ LatestListed(p) \/ InstanceCreated(p)
         \/ WaitInstance(p) \/ InstancePolled(p)
    \/ InstanceProgress

SpecRace == InitRace /\ [][NextRace]_vars

\* ------------------------------------------------------------------------
\* A stop run against an account that already holds backups, several policies

\* Snapshots found in the account: backups of today, complete or still
\* pending, a backup whose description sorts after every date, an old backup.
StopTemplates ==
    {[description |-> DescToday, status |-> "complete"],
     [description |-> DescToday, status |-> "pending"],
     [description |-> DescNoDate, status |-> "complete"],
     [description |-> DescAge40, status |-> "complete"]}

\* <<retain_days, max_count>>: the defaults, and the least of both.
StopPolicies == {<<DefaultRetainDays, DefaultMaxCount>>, <<0, 1>>}

InitStop ==
    /\ instances = <<[id |-> 1, label |-> LABEL, status |-> "active",
                      power_status |-> "running", snapshot_id |-> BaseSnapshotId]>>
    /\ snapshots \in Listings(StopTemplates, MaxBackups)
    /\ nextId = 20
    /\ today = Today0
    /\ faults = 0
    /\ \E pol \in StopPolicies : retain_days = pol[1] /\ max_count = pol[2]
    /\ InitProcs({1}, "main", {"stop"})
    /\ req = [p \in Procs |-> NoRequest]

NextStop ==
    \/ \E p \in Procs :
         \/ Main(p) \/ Request(p)
         \/ StopFound(p) \/ SnapshotCreated(p) \/ WaitSnapshot(p) \/ SnapshotPolled(p)
         \/ Destroyed(p) \/ PruneStart(p) \/ PruneListed(p) \/ PruneLoop(p)
    \/ SnapshotProgress

SpecStop == InitStop /\ [][NextStop]_vars

\* ------------------------------------------------------------------------
\* Runs one after the other: the next invocation begins when the last has ended

\* The accounts with at most one labelled instance that is not dead.
SingleAccounts ==
    {acc \in Accounts :
        Cardinality({i \in 1..Len(acc) : acc[i].label = LABEL /\ acc[i].status # "dead"}) <= 1}

\* The manager is invoked again, with either action, once every earlier
\* invocation has ended.
Launch(p) ==
    /\ pc[p] = "off"
    /\ \A q \in Procs : q < p => pc[q] = "exit"
    /\ pc' = [pc EXCEPT ![p] = "main"]
    /\ \E a \in {"start", "stop"} : action' = [action EXCEPT ![p] = a]
    /\ UNCHANGED <<provider, config, req, data, now, locals, exit_code, observed>>

InitSeq ==
    /\ instances \in SingleAccounts
    /\ snapshots \in Listings(RunTemplates, 1)
    /\ nextId = 20
    /\ today = Today0
    /\ faults = 1
    /\ retain_days = DefaultRetainDays
    /\ max_count = DefaultMaxCount
    /\ InitProcs({1}, "main", {"start", "stop"})
    /\ req = [p \in Procs |-> NoRequest]

NextSeq ==
    \/ \E p \in Procs : Launch(p) \/ (ProcNext(p) /\ \A q \in Procs : q < p => pc[q] = "exit")
    \/ SnapshotProgress
    \/ InstanceProgress

SpecSeq == InitSeq /\ [][NextSeq]_vars

\* ------------------------------------------------------------------------
\* _request on its own: any method, any retry count

RequestSamples ==
    {<<"GET", "instances", None, NoPayload>>,
     <<"get", "snapshot", 11, NoPayload>>,
     <<"POST", "snapshots", None, [NoPayload EXCEPT !.instance_id = 1, !.description = DescToday]>>,
     <<"post", "instances", None, [NoPayload EXCEPT !.snapshot_id = BaseSnapshotId, !.label = LABEL]>>,
     <<"PATCH", "instance", 1, NoPayload>>,
     <<"patch", "snapshot", 11, NoPayload>>,
     <<"DELETE", "snapshot", 11, NoPayload>>,
     <<"delete", "instance", 1, NoPayload>>}

InitRequest ==
    /\ instances = <<[id |-> 1, label |-> LABEL, status |-> "active",
                      power_status |-> "running", snapshot_id |-> BaseSnapshotId]>>
    /\ snapshots = <<[id |-> 11, description |-> DescAge4, status |-> "complete"]>>
    /\ nextId = 20
    /\ today = Today0
    /\ faults = MaxRetries + 1
    /\ retain_days = DefaultRetainDays
    /\ max_count = DefaultMaxCount
    /\ InitProcs({1}, "request", {"start"})
    /\ \E c \in RequestSamples, n \in 0..MaxRetries :
         req = [p \in Procs |-> IF p = 1 THEN CallRecord(c[1], c[2], c[3], c[4], n, "returned")
                                         ELSE NoRequest]

NextRequest == \E p \in Procs : Request(p)

SpecRequest == InitRequest /\ [][NextRequest]_vars

\* ------------------------------------------------------------------------
\* latest_backup_snapshot on its own: any small listing

LatestTemplates ==
    {[description |-> d, status |-> st] :
        d \in {DescToday, DescAge4, DescNoDate, DescManual},
        st \in {"complete", "pending", "error"}}

InitLatest ==
    /\ instances = <<>>
    /\ snapshots \in Listings(LatestTemplates, MaxLatest)
    /\ nextId = 20
    /\ today = Today0
    /\ faults = 0
    /\ retain_days = DefaultRetainDays
    /\ max_count = DefaultMaxCount
    /\ InitProcs({1}, "request", {"start"})
    /\ req = [p \in Procs |-> IF p = 1
                THEN CallRecord("GET", "snapshots", None, NoPayload, DefaultRetries,
                                "latest_backup_snapshot")
                ELSE NoRequest]

NextLatest == \E p \in Procs : Request(p) \/ LatestListed(p)

SpecLatest == InitLatest /\ [][NextLatest]_vars

\* ------------------------------------------------------------------------
\* prune_old_snapshots on its own: any listing, several policies

\* One backup of each day.
DatedTemplates ==
    {[description |-> d, status |-> "complete"] :
        d \in {DescToday, DescAge2, DescAge3, DescAge4, DescAge40}}

\* The dated backups, a second snapshot of today (a same-day collision), the
\* two backups without a date and one snapshot that is no backup.
PruneTemplates ==
    DatedTemplates \cup
    {[description |-> DescToday, status |-> "pending"],
     [description |-> DescNoDate, status |-> "complete"],
     [description |-> DescBadDate, status |-> "complete"],
     [description |-> DescManual, status |-> "complete"]}

\* Listings in which no template occurs twice.
DistinctListings(templates, n) ==
    {[i \in 1..Len(ts) |-> [id |-> 10 + i, description |-> ts[i].description,
                            status |-> ts[i].status]] :
        ts \in {t \in SeqsUpTo(templates, n) :
                  \A i, j \in 1..Len(t) : i # j => t[i] # t[j]}}

\* <<retain_days, max_count>>: a generous count, a generous age, and the
\* least of both.
Policies == {<<DefaultRetainDays, 10>>, <<100, DefaultMaxCount>>, <<0, 1>>}

InitPrune ==
    /\ instances = <<>>
    /\ snapshots \in DistinctListings(PruneTemplates, MaxListing)
                     \cup DistinctListings(DatedTemplates, Cardinality(DatedTemplates))
    /\ nextId = 20
    /\ today = Today0
    /\ faults = 0
    /\ \E pol \in Policies : retain_days = pol[1] /\ max_count = pol[2]
    /\ InitProcs({1}, "prune_old_snapshots", {"stop"})
    /\ req = [p \in Procs |-> NoRequest]

NextPrune == \E p \in Procs : PruneStart(p) \/ Request(p) \/ PruneListed(p) \/ PruneLoop(p)

SpecPrune == InitPrune /\ [][NextPrune]_vars

\* ------------------------------------------------------------------------
\* _wait_for_instance on its own: an instance in any state

\* What the provider may report of an instance: its status and its power.
InstanceStates ==
    {[status |-> st, power_status |-> pw] :
        st \in {"pending", "active", "failed"}, pw \in {"stopped", "running"}}

InitWait ==
    /\ \E state \in InstanceStates :
         instances = <<[id |-> 1, label |-> LABEL, status |-> state.status,
                        power_status |-> state.power_status, snapshot_id |-> BaseSnapshotId]>>
    /\ snapshots = <<>>
    /\ nextId = 20
    /\ today = Today0
    /\ faults = MaxFaults
    /\ retain_days = DefaultRetainDays
    /\ max_count = DefaultMaxCount
    /\ pc = [p \in Procs |-> IF p = 1 THEN "wait_for_instance" ELSE "off"]
    /\ action = [p \in Procs |-> "start"]
    /\ req = [p \in Procs |-> NoRequest]
    /\ data = [p \in Procs |-> EmptyBody]
    /\ now = [p \in Procs |-> 0]
    /\ deadline = [p \in Procs |-> InstanceTimeout]
    /\ instance_id = [p \in Procs |-> IF p = 1 THEN 1 ELSE None]
    /\ snap_id = [p \in Procs |-> None]
    /\ latest = [p \in Procs |-> None]
    /\ backups = [p \in Procs |-> <<>>]
    /\ to_delete = [p \in Procs |-> {}]
    /\ idx = [p \in Procs |-> 0]
    /\ exit_code = [p \in Procs |-> 0]
    /\ calls = [p \in Procs |-> ZeroCalls]
    /\ tries = [p \in Procs |-> 0]
    /\ last = [p \in Procs |-> NetErr]
    /\ deleted = [p \in Procs |-> {}]
    /\ created = [p \in Procs |-> None]
    /\ seen_complete = [p \in Procs |-> None]
    /\ logged = [p \in Procs |-> {}]

NextWait ==
    \/ \E p \in Procs : WaitInstance(p) \/ Request(p) \/ InstancePolled(p)
    \/ InstanceProgress

SpecWait == InitWait /\ [][NextWait]_vars

\* ------------------------------------------------------------------------
\* Properties

DestroyCalls(p) == calls[p][<<"DELETE", "instance">>]

\* The place of the i-th snapshot of a listing among its backups taken newest
\* first (0 for the newest): the backups with a greater description, and
\* those with the same description that the listing names earlier.
Position(listing, i) ==
    Cardinality({j \in 1..Len(listing) :
        /\ IsBackup(listing[j])
        /\ \/ LexLess(listing[i].description, listing[j].description)
           \/ listing[j].description = listing[i].description /\ j < i})

BackupIndexes(listing) == {i \in 1..Len(listing) : IsBackup(listing[i])}

\* The date a backup's description carries after the prefix.
EmbeddedDate(snap) == Strptime(Drop(snap.description, Len(BackupPrefix)))

HasLive(listing) ==
    \E i \in 1..Len(listing) : listing[i].label = LABEL /\ listing[i].status # "dead"

OnlyListedInstances(p) ==
    \A k \in Methods \X Kinds : k # <<"GET", "instances">> => calls[p][k] = 0

\* A process that has exited stays so and sends nothing more.
ExitIsFinal(p) ==
    pc[p] = "exit" =>
        pc'[p] = "exit" /\ exit_code'[p] = exit_code[p] /\ calls'[p] = calls[p]

\* C1: stop sends the DELETE of the instance only after a poll of the snapshot
\* that this run created has returned "complete"; a run in which the create call
\* failed, the snapshot went to "error" or the deadline passed never sends it.
C1_DestroyOnlyAfterComplete ==
    \A p \in Procs :
        (DestroyCalls(p) > 0 \/ (pc[p] = "request" /\ req[p].ret = "destroy_instance")) =>
            /\ seen_complete[p] # None
            /\ seen_complete[p] = created[p]

C1_Witness ==
    \E p \in Procs : DestroyCalls(p) > 0 /\ seen_complete[p] = created[p] /\ now[p] > 0

\* C2: once stop has destroyed the instance, a failure of the pruning never
\* aborts the run: it ends with "Stop sequence complete" and exit status 0.
C2_PruneFailureNeverAborts ==
    \A p \in Procs :
        (pc[p] = "exit" /\ "Instance destroyed." \in logged[p]) =>
            /\ exit_code[p] = 0
            /\ "Stop sequence complete." \in logged[p]

\* C3: for retain_days >= 0 and max_count >= 1, prune_old_snapshots neither
\* selects nor sends a DELETE for the newest backup (the first after the sort).
C3_NewestNeverPruned ==
    \A p \in Procs :
        \A i \in BackupIndexes(data[p].snapshots) :
            Position(data[p].snapshots, i) = 0 =>
                /\ data[p].snapshots[i].id \notin deleted[p]
                /\ data[p].snapshots[i].id \notin to_delete[p]

\* The newest backup is older than retain_days and others were deleted.
C3_Witness ==
    \E p \in Procs :
        /\ pc[p] = "exit" /\ deleted[p] # {}
        /\ \E i \in BackupIndexes(data[p].snapshots) :
             /\ Position(data[p].snapshots, i) = 0
             /\ ~EmbeddedDate(data[p].snapshots[i]).raised
             /\ AgeDays(today, EmbeddedDate(data[p].snapshots[i])) > retain_days

\* C4: a POST or PATCH call makes exactly one attempt whatever retry count it
\* is given, and a failure of that attempt is fatal; a GET or DELETE call
\* never makes more attempts than the retry count.
C4_AttemptBudget ==
    \A p \in Procs :
        LET m == Upper(req[p].method)
        IN  /\ m \in {"POST", "PATCH"} =>
                 /\ tries[p] <= 1
                 /\ pc[p] = "returned" => tries[p] = 1 /\ last[p] = OkCode(req[p])
                 /\ pc[p] = "exit" => tries[p] = 1 /\ exit_code[p] = 1
            /\ m \in {"GET", "DELETE"} => tries[p] <= req[p].retries

\* A POST written in lower case, given more than one retry, failed on a
\* transient error after its only attempt.
C4_Witness ==
    \E p \in Procs :
        /\ req[p].method = "post" /\ req[p].retries > 1
        /\ pc[p] = "exit" /\ tries[p] = 1 /\ last[p] \in {NetErr, 500}

C6_StartIsNoOpWhenLive ==
    \A p \in Procs :
        (action[p] = "start" /\ HasLive(data[p].instances)) =>
            /\ pc[p] \in {"find_instance", "exit"}
            /\ pc[p] = "exit" => exit_code[p] = 0
            /\ OnlyListedInstances(p)

\* start ended after a listing whose live instance is not "active" and comes
\* after another entry.
C6_Witness ==
    \E p \in Procs :
        /\ action[p] = "start" /\ pc[p] = "exit" /\ exit_code[p] = 0
        /\ Len(data[p].instances) = 2
        /\ ~HasLive(<<data[p].instances[1]>>)
        /\ data[p].instances[2].label = LABEL
        /\ data[p].instances[2].status = "suspended"

\* C7: latest_backup_snapshot returns the id of a snapshot whose description
\* is the greatest among the complete backups of the listing, and None
\* exactly when the listing has no complete backup.
C7_LatestIsGreatestComplete ==
    \A p \in Procs :
        (pc[p] = "request" /\ req[p].ret = "create_instance") =>
            LET listing == data[p].snapshots
                eligible == {i \in 1..Len(listing) :
                               /\ StartsWith(listing[i].description, BackupPrefix)
                               /\ listing[i].status = "complete"}
            IN  /\ latest[p] = None <=> eligible = {}
                /\ eligible # {} =>
                     \E i \in eligible :
                        /\ listing[i].id = latest[p]
                        /\ \A j \in eligible :
                             ~LexLess(listing[i].description, listing[j].description)

\* A backup that is not complete has a greater description than the one returned.
C7_Witness ==
    \E p \in Procs :
        /\ pc[p] = "request" /\ req[p].ret = "create_instance" /\ latest[p] # None
        /\ \E i, j \in 1..Len(data[p].snapshots) :
             /\ data[p].snapshots[i].id = latest[p]
             /\ IsBackup(data[p].snapshots[j])
             /\ data[p].snapshots[j].status # "complete"
             /\ LexLess(data[p].snapshots[i].description, data[p].snapshots[j].description)

\* What C8 says prune_old_snapshots deletes: the backups at a position >= 1
\* whose date is more than retain_days before today, and those at a position
\* >= max_count.
Doomed(listing) ==
    {listing[i].id : i \in {i \in BackupIndexes(listing) :
        \/ /\ Position(listing, i) >= 1
           /\ ~EmbeddedDate(listing[i]).raised
           /\ Ordinal(today) - Ordinal(EmbeddedDate(listing[i])) > retain_days
        \/ Position(listing, i) >= max_count}}

Described(listing, descriptions) ==
    /\ Len(listing) = Cardinality(descriptions)
    /\ {listing[i].description : i \in 1..Len(listing)} = descriptions

IdsOf(listing, descriptions) ==
    {listing[i].id : i \in {i \in 1..Len(listing) : listing[i].description \in descriptions}}

\* D0..D4 with max_count = 3 and a large retain_days.
ExampleCount(p) ==
    /\ Described(data[p].snapshots, {DescToday, DescAge2, DescAge3, DescAge4, DescAge40})
    /\ max_count = 3 /\ retain_days = 100

\* D0 of today, D1 40 days old, D2 2 days old with retain_days = 3, max_count = 10.
ExampleAge(p) ==
    /\ Described(data[p].snapshots, {DescToday, DescAge40, DescAge2})
    /\ max_count = 10 /\ retain_days = 3

\* C8: the snapshots prune_old_snapshots deletes are exactly the backups at a
\* position >= 1 whose date is more than retain_days before today joined with
\* those at a position >= max_count; D0..D4 with max_count 3 gives {D3, D4}, and
\* today, 40 days, 2 days with retain_days 3 and max_count 10 gives the 40 days one.
C8_DeletionSet ==
    \A p \in Procs :
        /\ pc[p] \in {"prune_loop", "request"} /\ req[p].ret = "prune_loop" =>
              to_delete[p] = Doomed(data[p].snapshots)
        /\ deleted[p] \subseteq Doomed(data[p].snapshots)
        /\ pc[p] = "exit" =>
              /\ deleted[p] = Doomed(data[p].snapshots)
              /\ ExampleCount(p) => deleted[p] = IdsOf(data[p].snapshots, {DescAge4, DescAge40})
              /\ ExampleAge(p) => deleted[p] = IdsOf(data[p].snapshots, {DescAge40})

\* A run that deleted by age alone and kept a backup exactly retain_days old.
C8_Witness ==
    \E p \in Procs :
        /\ pc[p] = "exit" /\ retain_days = 3 /\ max_count = 10
        /\ deleted[p] = IdsOf(data[p].snapshots, {DescAge4, DescAge40})
        /\ Cardinality(deleted[p]) = 2
        /\ \E i \in 1..Len(data[p].snapshots) :
             data[p].snapshots[i].description = DescAge3 /\ Position(data[p].snapshots, i) = 1

\* C9: when the listing holds no labelled instance that is not dead, stop ends
\* with exit status 1 after the listing alone: no snapshot is created, no
\* instance and no snapshot is deleted.
C9_StopWithoutInstanceIsFatal ==
    [][\A p \in Procs :
         /\ (action[p] = "stop" /\ pc[p] = "find_instance"
                /\ ~HasLive(data[p].instances)) =>
                /\ OnlyListedInstances(p)
                /\ deleted[p] = {}
                /\ calls'[p] = calls[p]
                /\ pc'[p] = "find_instance" \/ (pc'[p] = "exit" /\ exit_code'[p] = 1)
         /\ ExitIsFinal(p)]_vars

\* stop ended fatally after a listing that was not empty.
C9_Witness ==
    \E p \in Procs :
        /\ action[p] = "stop" /\ pc[p] = "exit" /\ exit_code[p] = 1
        /\ "No running instance found." \in logged[p]
        /\ Len(data[p].instances) = 2

\* The parser rejects what follows the prefix of a backup's description.
Unparsable(snap) == IsBackup(snap) /\ EmbeddedDate(snap).raised

\* C10 as stated: a backup whose suffix is no valid date is never deleted by
\* prune_old_snapshots and never makes it fail.
C10_UnparsableNeverPruned ==
    \A p \in Procs :
        /\ \A i \in 1..Len(data[p].snapshots) :
             Unparsable(data[p].snapshots[i]) => data[p].snapshots[i].id \notin deleted[p]
        /\ "Snapshot pruning failed (non-fatal)" \notin logged[p]

\* C10, amended: a backup whose suffix the parser rejects is never selected by
\* the age rule; it is deleted exactly when its position is >= max_count, and
\* it never makes prune_old_snapshots fail.
C10_UnparsablePrunedOnlyByCount ==
    \A p \in Procs :
        /\ \A i \in 1..Len(data[p].snapshots) :
             Unparsable(data[p].snapshots[i]) =>
                /\ data[p].snapshots[i].id \in deleted[p] =>
                      Position(data[p].snapshots, i) >= max_count
                /\ (pc[p] = "exit" /\ Position(data[p].snapshots, i) >= max_count) =>
                      data[p].snapshots[i].id \in deleted[p]
        /\ "Snapshot pruning failed (non-fatal)" \notin logged[p]
        /\ pc[p] = "exit" => exit_code[p] = 0

\* A backup without a date, not the newest, was kept while an older dated
\* backup was deleted.
C10_Witness ==
    \E p \in Procs :
        /\ pc[p] = "exit" /\ deleted[p] # {}
        /\ \E i \in 1..Len(data[p].snapshots) :
             /\ Unparsable(data[p].snapshots[i])
             /\ Position(data[p].snapshots, i) >= 1
             /\ data[p].snapshots[i].id \notin deleted[p]

\* The snapshots of a listing whose description starts with the backup prefix.
Prefixed(listing) ==
    SelectSeq(listing, LAMBDA x : StartsWith(x.description, BackupPrefix))

\* C11: prune_old_snapshots sends no DELETE for a snapshot whose description
\* does not start with the backup prefix, and what it deletes is what it would
\* delete were those snapshots not in the listing.
C11_OthersInvisible ==
    \A p \in Procs :
        LET listing == data[p].snapshots
            without == ToDelete(SortDescending(Prefixed(listing)), today, retain_days, max_count)
        IN  /\ \A i \in 1..Len(listing) :
                 ~StartsWith(listing[i].description, BackupPrefix) =>
                     listing[i].id \notin deleted[p] \cup to_delete[p]
            /\ deleted[p] \subseteq without
            /\ (pc[p] = "exit" /\ Prefixed(listing) # <<>>) => deleted[p] = without

\* Three backups and a snapshot that is no backup, listed first, with
\* max_count = 3: nothing was deleted.
C11_Witness ==
    \E p \in Procs :
        /\ pc[p] = "exit" /\ max_count = 3 /\ deleted[p] = {}
        /\ Len(data[p].snapshots) = 4
        /\ Len(Prefixed(data[p].snapshots)) = 3
        /\ data[p].snapshots[1].description = DescManual

\* A failure that _request retries: no response, or a status that is neither
\* a success nor in 400..499.
IsTransient(st) == st = NetErr \/ (st \notin {200, 201, 202, 204} /\ st \notin 400..499)

\* The seconds waited when n attempts have been followed by a wait:
\* BackoffBase * (1 + ... + n).
WaitedAfter(n) == BackoffBase * ((n * (n + 1)) \div 2)

\* C12: a GET or DELETE call with budget N whose attempts 1..k-1 fail
\* transiently and whose attempt k <= N succeeds returns after exactly k
\* attempts; when all N attempts fail transiently it is fatal after exactly N
\* attempts. Between two attempts it waits attempt * BackoffBase seconds, and it
\* does not wait after the last attempt.
C12_RetryThenBackoff ==
    \A p \in Procs :
        LET N == req[p].retries
            k == tries[p]
        IN  Upper(req[p].method) \in {"GET", "DELETE"} =>
              /\ (pc[p] = "request" /\ k > 0) =>
                    /\ IsTransient(last[p]) /\ k <= N
                    /\ now[p] = IF k < N THEN WaitedAfter(k) ELSE WaitedAfter(N - 1)
              /\ pc[p] = "returned" =>
                    /\ IsSuccess(last[p]) /\ 1 <= k /\ k <= N
                    /\ now[p] = WaitedAfter(k - 1)
              /\ (pc[p] = "exit" /\ IsTransient(last[p])) =>
                    /\ k = N /\ exit_code[p] = 1
                    /\ now[p] = IF N = 0 THEN 0 ELSE WaitedAfter(N - 1)

\* A call with a budget of 4 returned at its third attempt, after waits of 10
\* and 20 seconds.
C12_Witness ==
    \E p \in Procs :
        /\ Upper(req[p].method) \in {"GET", "DELETE"} /\ req[p].retries = 4
        /\ pc[p] = "returned" /\ tries[p] = 3 /\ now[p] = 30

\* The process is in the loop of wait_for_snapshot: at its test, in a poll, or
\* looking at what a poll returned.
InSnapshotWait(p) ==
    \/ pc[p] \in {"wait_for_snapshot", "snapshot_polled"}
    \/ pc[p] = "request" /\ req[p].ret = "snapshot_polled"

\* The step begins a poll only while the deadline has not elapsed.
PollsBeforeDeadline(p) ==
    (pc[p] = "wait_for_snapshot" /\ pc'[p] = "request") => now[p] < deadline[p]

\* The step leaves the loop by returning: a poll has just observed "complete".
ReturnsOnComplete(p) ==
    /\ pc[p] = "snapshot_polled" /\ data[p].snapshot[1].status = "complete"
    /\ seen_complete[p] = snap_id[p]
    /\ pc'[p] = "request" /\ req'[p].ret = "destroy_instance"

\* The step leaves the loop fatally: a poll has just observed "error".
FatalOnError(p) ==
    /\ pc[p] = "snapshot_polled" /\ data[p].snapshot[1].status = "error"
    /\ pc'[p] = "exit" /\ exit_code'[p] = 1 /\ calls'[p] = calls[p]

\* The step leaves the loop fatally: the deadline has elapsed and no poll
\* observed "complete" or "error".
FatalOnDeadline(p) ==
    /\ pc[p] = "wait_for_snapshot" /\ now[p] >= deadline[p]
    /\ seen_complete[p] = None /\ "Snapshot entered error state." \notin logged[p]
    /\ pc'[p] = "exit" /\ exit_code'[p] = 1 /\ calls'[p] = calls[p]

\* The step leaves the loop fatally: the poll's own call failed, on a status
\* in 400..499 or with its attempts used up.
FatalOnFailedPoll(p) ==
    /\ pc[p] = "request" /\ req[p].ret = "snapshot_polled"
    /\ pc'[p] = "exit" /\ exit_code'[p] = 1
    /\ \/ last'[p] \in 400..499
       \/ tries'[p] = tries[p] /\ tries[p] = DefaultRetries /\ IsTransient(last[p])

\* C13 as stated: the loop of wait_for_snapshot ends in one of three ways: it
\* returns after a poll observed "complete", it is fatal at the first poll that
\* observes "error", or it is fatal once the deadline has elapsed with no poll
\* having observed either; a poll is begun only before the deadline.
C13_ThreeWaysOut ==
    [][\A p \in Procs :
         /\ PollsBeforeDeadline(p)
         /\ (InSnapshotWait(p) /\ ~InSnapshotWait(p)') =>
               ReturnsOnComplete(p) \/ FatalOnError(p) \/ FatalOnDeadline(p)
         /\ ExitIsFinal(p)]_vars

\* C13, amended: the loop ends in one of four ways, the three above and the
\* fatal failure of a poll's own call (a status in 400..499, or all attempts
\* failed); a poll is begun only before the deadline, and the loop is left on
\* "complete" and on "error" at the poll that observes it.
C13_FourWaysOut ==
    [][\A p \in Procs :
         /\ PollsBeforeDeadline(p)
         /\ (InSnapshotWait(p) /\ ~InSnapshotWait(p)') =>
               \/ ReturnsOnComplete(p) \/ FatalOnError(p) \/ FatalOnDeadline(p)
               \/ FatalOnFailedPoll(p)
         /\ (pc[p] = "snapshot_polled" /\ pc'[p] # pc[p]
                /\ data[p].snapshot[1].status \in {"complete", "error"}) =>
               ReturnsOnComplete(p) \/ FatalOnError(p)
         /\ (pc[p] = "snapshot_polled" /\ pc'[p] # pc[p]
                /\ data[p].snapshot[1].status \notin {"complete", "error"}) =>
               pc'[p] = "wait_for_snapshot" /\ now'[p] = now[p] + SnapshotPollInterval
         /\ ExitIsFinal(p)]_vars

\* The deadline elapsed after two polls that observed a pending snapshot.
C13_Witness ==
    \E p \in Procs :
        /\ pc[p] = "exit" /\ exit_code[p] = 1
        /\ "Snapshot did not complete" \in logged[p]
        /\ calls[p][<<"GET", "snapshot">>] >= 2
        /\ now[p] >= deadline[p]
        /\ seen_complete[p] = None

\* The instance the last poll returned is active and running.
ObservedLive(p) ==
    /\ data[p].instance # <<>>
    /\ data[p].instance[1].status = "active"
    /\ data[p].instance[1].power_status = "running"

\* C14: _wait_for_instance returns only at a poll that observed status
\* "active" together with power_status "running"; at any other observation it
\* sleeps and goes back to the loop test, which polls again before the deadline
\* and is fatal from the deadline on; start reports success only for an
\* instance observed active and running.
C14_ActiveAndRunning ==
    [][\A p \in Procs :
         /\ (pc[p] = "instance_polled" /\ pc'[p] # pc[p]) =>
               IF ObservedLive(p)
               THEN pc'[p] = "exit" /\ exit_code'[p] = 0
               ELSE /\ pc'[p] = "wait_for_instance"
                    /\ now'[p] = now[p] + InstancePollInterval
                    /\ logged'[p] = logged[p]
         /\ (pc[p] = "wait_for_instance" /\ pc'[p] # pc[p]) =>
               IF now[p] < deadline[p]
               THEN pc'[p] = "request" /\ req'[p].kind = "instance"
                    /\ Upper(req'[p].method) = "GET"
               ELSE pc'[p] = "exit" /\ exit_code'[p] = 1 /\ calls'[p] = calls[p]
         /\ ("Server started successfully." \in logged'[p]
                \/ (pc'[p] = "exit" /\ exit_code'[p] = 0)) => ObservedLive(p)'
         /\ ExitIsFinal(p)]_vars

\* The deadline passed on an instance that stayed active with its power off
\* through two polls.
C14_Witness ==
    \E p \in Procs :
        /\ pc[p] = "exit" /\ exit_code[p] = 1
        /\ "Instance did not become active" \in logged[p]
        /\ calls[p][<<"GET", "instance">>] >= 2
        /\ data[p].instance[1].status = "active"
        /\ data[p].instance[1].power_status = "stopped"

\* The complete backups of a listing, by index.
CompleteBackups(listing) ==
    {i \in 1..Len(listing) :
        /\ StartsWith(listing[i].description, BackupPrefix)
        /\ listing[i].status = "complete"}

\* C15: the create call of create_instance carries the id of a complete
\* backup with the greatest description when the listing has a complete backup,
\* and the base snapshot id exactly when it has none: never a backup that is
\* pending or in error, never the base snapshot while a complete backup exists.
C15_BootSource ==
    \A p \in Procs :
        (pc[p] = "request" /\ req[p].ret = "create_instance") =>
            LET listing == data[p].snapshots
                source == req[p].payload.snapshot_id
            IN  /\ Upper(req[p].method) = "POST" /\ req[p].kind = "instances"
                /\ req[p].payload.label = LABEL
                /\ source = BaseSnapshotId <=> CompleteBackups(listing) = {}
                /\ source # BaseSnapshotId =>
                     \E i \in CompleteBackups(listing) :
                        /\ listing[i].id = source
                        /\ \A j \in CompleteBackups(listing) :
                             ~LexLess(listing[i].description, listing[j].description)
                /\ \A i \in 1..Len(listing) :
                     listing[i].status # "complete" => listing[i].id # source

\* The base snapshot is the source although the listing holds backups: one
\* pending, one in error.
C15_Witness ==
    \E p \in Procs :
        /\ pc[p] = "request" /\ req[p].ret = "create_instance"
        /\ req[p].payload.snapshot_id = BaseSnapshotId
        /\ \E i, j \in 1..Len(data[p].snapshots) :
             /\ IsBackup(data[p].snapshots[i]) /\ data[p].snapshots[i].status = "pending"
             /\ IsBackup(data[p].snapshots[j]) /\ data[p].snapshots[j].status = "error"

\* The polls a loop can begin before its deadline: one at each multiple of the
\* interval below the timeout.
MaxPolls(timeout, interval) == (timeout + interval - 1) \div interval

\* C16: every run of start or stop ends, successfully or fatally, whatever the
\* provider answers: a call never makes more attempts than its budget, a poll
\* loop begins no more polls than fit before its deadline, and a run that has
\* passed a deadline sends nothing more.
C16_Terminates ==
    /\ \A p \in Procs : (pc[p] = "main") ~> (pc[p] = "exit")
    /\ [](\A p \in Procs :
            /\ tries[p] <= DefaultRetries
            /\ calls[p][<<"GET", "instance">>]
                  <= DefaultRetries * MaxPolls(InstanceTimeout, InstancePollInterval)
            /\ calls[p][<<"GET", "snapshot">>]
                  <= DefaultRetries * MaxPolls(SnapshotTimeout, SnapshotPollInterval)
            /\ ("Instance did not become active" \in logged[p]
                   \/ "Snapshot did not complete" \in logged[p]) =>
                  pc[p] = "exit" /\ exit_code[p] = 1)
    /\ [][\A p \in Procs : ExitIsFinal(p)]_vars

\* A start run ended when the deadline passed on an instance that never became
\* active, after a poll that had to be retried.
C16_Witness ==
    \E p \in Procs :
        /\ action[p] = "start" /\ pc[p] = "exit" /\ exit_code[p] = 1
        /\ "Instance did not become active" \in logged[p]
        /\ calls[p][<<"GET", "instance">>] > MaxPolls(InstanceTimeout, InstancePollInterval)
        /\ now[p] > deadline[p]

\* The instances of the account that carry the managed label and are not dead.
LiveLabelled == {i \in 1..Len(instances) :
                    instances[i].label = LABEL /\ instances[i].status # "dead"}

\* The processes whose create call returned an instance.
Creators == {p \in Procs : instance_id[p] # None}

\* C17: two start runs at once against an account without a live labelled
\* instance can both list no instance and both create one, which leaves two
\* live labelled instances: every run whose create call returned has an
\* instance of its own in the account, whatever the other run did.
C17_EachRunCreatesItsOwn ==
    /\ \A p \in Creators :
         /\ action[p] = "start"
         /\ calls[p][<<"POST", "instances">>] = 1
         /\ \E i \in LiveLabelled : instances[i].id = instance_id[p]
    /\ \A p, q \in Creators : p # q => instance_id[p] # instance_id[q]
    /\ Cardinality(LiveLabelled) >= Cardinality(Creators)

\* Both runs reported success and the account holds two live labelled
\* instances, both active and running.
C17_Witness ==
    /\ \A p \in Procs :
         /\ pc[p] = "exit" /\ exit_code[p] = 0
         /\ "Server started successfully." \in logged[p]
    /\ Cardinality(Creators) = 2
    /\ Cardinality({i \in LiveLabelled : instances[i].status = "active"
                                          /\ instances[i].power_status = "running"}) = 2

\* C18: the pruning of a stop run never deletes the snapshot that the run
\* created and waited for: when stop has completed, that snapshot is still in
\* the account, whatever snapshots were there before and whatever the policy.
C18_NewSnapshotSurvives ==
    \A p \in Procs :
        (action[p] = "stop" /\ created[p] # None) =>
            /\ created[p] \notin deleted[p]
            /\ (pc[p] = "exit" /\ "Stop sequence complete." \in logged[p]) =>
                  HasId(snapshots, created[p])

\* C19: from an account with at most one labelled instance that is not dead,
\* runs of start and stop made one after the other, however each of them ends,
\* leave at most one such instance; a start run sends at most one create call.
C19_AtMostOneInstance ==
    /\ Cardinality(LiveLabelled) <= 1
    /\ \A p \in Procs : calls[p][<<"POST", "instances">>] <= 1

\* The response to the create call of a first start run was lost after the
\* provider had made the instance; the start run that followed found that
\* instance and created nothing.
C19_Witness ==
    /\ action[1] = "start" /\ pc[1] = "exit" /\ exit_code[1] = 1
    /\ calls[1][<<"POST", "instances">>] = 1 /\ last[1] \in {NetErr, 500}
    /\ instance_id[1] = None
    /\ action[2] = "start" /\ pc[2] = "exit" /\ exit_code[2] = 0
    /\ calls[2][<<"POST", "instances">>] = 0
    /\ Cardinality(LiveLabelled) = 1
    /\ \E i \in LiveLabelled : instances[i].id >= 20

\* C20: a DELETE of destroy_instance that took effect although its response
\* was lost is retried without harm: a stop run never ends in destroy_instance
\* on the provider's own answer to a retry when the instance has been removed
\* from the account; it goes on to the pruning.
C20_DeleteRetryIsSafe ==
    \A p \in Procs :
        (/\ action[p] = "stop" /\ pc[p] = "exit"
         /\ req[p].ret = "destroy_instance" /\ DestroyCalls(p) > 1
         /\ ~Injected(req[p], last[p])
         /\ ~HasId(instances, instance_id[p])) =>
            /\ exit_code[p] = 0
            /\ "Instance destroyed." \in logged[p]

====
